---- MODULE Spec2Model ----
(***************************************************************************)
(* Lettr n8n node: Lettr.execute and its helpers, as a state machine.     *)
(* One step per awaited HTTP request; everything between two awaits is    *)
(* part of the same step.                                                  *)
(***************************************************************************)
EXTENDS Integers, Sequences, FiniteSets, TLC

(* ---------------------------------------------------------------------- *)
(* Bounds                                                                  *)
(* ---------------------------------------------------------------------- *)
\* number of input items of one execution
NumItems == 2
\* requests the server answers successfully during one execution; every
\* later request fails at the transport
MaxReq == 3
\* list entries the server returns during one execution, over all responses
MaxEntries == 2
\* largest value of the limit parameter
MaxLimit == 2
\* largest page number the server reports
MaxPage == 3

(* ---------------------------------------------------------------------- *)
(* Values                                                                  *)
(* ---------------------------------------------------------------------- *)
\* list entries: opaque JSON objects
Records == {[id |-> "a"], [id |-> "b"]}

RECURSIVE SeqsUpTo(_, _)
SeqsUpTo(S, n) ==
    IF n = 0 THEN {<<>>}
    ELSE LET shorter == SeqsUpTo(S, n - 1)
         IN  shorter \cup {Append(s, e) : s \in {t \in shorter : Len(t) = n - 1}, e \in S}

\* the empty JSON object {}
EmptyObject == <<>>

\* a key of an object that is not set reads as undefined
Has(obj, key) == key \in DOMAIN obj

\* the value undefined, where a string may stand
Undefined == "<undefined>"

\* JavaScript truthiness of a string or undefined
Truthy(s) == s \notin {"", Undefined}

\* obj[key] of a string-valued key: undefined when the key is not set
Get(obj, key) == IF Has(obj, key) THEN obj[key] ELSE Undefined

\* opaque tokens the server hands out in pagination.next_cursor: a fresh one
\* with every response
TokenNames == <<"c1", "c2", "c3", "c4", "c5", "c6", "c7", "c8">>
Token(n) == TokenNames[n]

(* ---------------------------------------------------------------------- *)
(* Helpers of the node                                                     *)
(* ---------------------------------------------------------------------- *)
getResponseData(response) ==
    IF Has(response, "data") THEN response.data ELSE EmptyObject

getResponseList(response, key) ==
    LET data == getResponseData(response)
    IN  IF Has(data, key) THEN data[key] ELSE <<>>

getPagination(response) ==
    LET data == getResponseData(response)
    IN  IF Has(data, "pagination") THEN data.pagination ELSE EmptyObject

(* ---------------------------------------------------------------------- *)
(* State                                                                   *)
(* ---------------------------------------------------------------------- *)
VARIABLES
    resource,        \* node parameter 'resource' (noDataExpression: one value per execution)
    operation,       \* node parameter 'operation' (noDataExpression)
    continueOnFail,  \* this.continueOnFail()
    returnAll,       \* node parameter 'returnAll', set on the node for all items
    simplify,        \* node parameter 'simplify', set on the node for all items
    itemIndex,       \* loop variable of execute
    returnData,      \* output records pushed so far
    pc,              \* "item", "cursorLoop", "pageLoop", "next", "returned", "thrown"
    thrown,          \* the error execute rejected with
    params,          \* parameters read for the current item
    entries,         \* accumulator of the exhaustive fetches
    cursor,          \* continuation of the cursor loop
    page,            \* continuation of the page loop
    reqLog,          \* history: requests issued for the current item, with their outcome
    outStart,        \* history: Len(returnData) when the current item began
    outcome,         \* history: "none", "running", "ok", "failed" for the current item
    itemError,       \* history: the error raised while processing the current item
    answered,        \* server: requests answered successfully in this execution
    delivered        \* server: list entries returned in this execution

vars == <<resource, operation, continueOnFail, returnAll, simplify, itemIndex, returnData, pc, thrown,
          params, entries, cursor, page, reqLog, outStart, outcome, itemError,
          answered, delivered>>

NoError == [kind |-> "none"]

\* (resource, operation) pairs: any value of the two options parameters
Resources == {"email", "domain", "template", "webhook"}
Operations == {"send", "get", "getAll"}

Init ==
    /\ resource \in Resources
    /\ operation \in Operations
    /\ continueOnFail \in BOOLEAN
    /\ returnAll \in (IF operation = "getAll" THEN BOOLEAN ELSE {FALSE})
    /\ simplify \in (IF operation = "getAll" THEN BOOLEAN ELSE {TRUE})
    /\ itemIndex = 0
    /\ returnData = <<>>
    /\ pc = "item"
    /\ thrown = NoError
    /\ params = EmptyObject
    /\ entries = <<>>
    /\ cursor = Undefined
    /\ page = 1
    /\ reqLog = <<>>
    /\ outStart = 0
    /\ outcome = "none"
    /\ itemError = NoError
    /\ answered = 0
    /\ delivered = 0

(* ---------------------------------------------------------------------- *)
(* lettrApiRequest                                                         *)
(* ---------------------------------------------------------------------- *)
\* the options handed to httpRequestWithAuthentication: empty body and qs
\* objects are deleted
RequestOptions(method, endpoint, body, qs) ==
    [method |-> method, url |-> endpoint]
        @@ (IF DOMAIN body = {} THEN EmptyObject ELSE [body |-> body])
        @@ (IF DOMAIN qs = {} THEN EmptyObject ELSE [qs |-> qs])

NodeApiError(i) == [kind |-> "NodeApiError", message |-> "api error", itemIndex |-> i]

NodeOperationError(message, i) ==
    [kind |-> "NodeOperationError", message |-> message, itemIndex |-> i]

\* one request in the history of the current item
Issued(options, ok, response) == [options |-> options, ok |-> ok, response |-> response]

\* what awaiting httpRequestWithAuthentication can produce: a response of the
\* endpoint, or a rejection
Outcomes(responses) ==
    {[ok |-> FALSE, response |-> EmptyObject]}
        \cup (IF answered < MaxReq
               THEN {[ok |-> TRUE, response |-> r] : r \in responses}
               ELSE {})

\* lists the server can still return; entries are opaque, so the first one it
\* ever returns is taken to be FirstRecord
FirstRecord == [id |-> "a"]

Lists ==
    { l \in SeqsUpTo(Records, MaxEntries - delivered) :
        (delivered = 0 /\ l # <<>>) => l[1] = FirstRecord }

\* the server's bookkeeping after an outcome whose response carries list under key
Served(o, key) ==
    /\ answered' = answered + (IF o.ok THEN 1 ELSE 0)
    /\ delivered' = delivered + Len(getResponseList(o.response, key))

(* ---------------------------------------------------------------------- *)
(* The item loop of execute                                                *)
(* ---------------------------------------------------------------------- *)
Out(json, i) == [json |-> json, pairedItem |-> i]

\* a push loop that skips an entry equal to one it has pushed
OnePerEntryDistinct(list, i) ==
    LET firsts == SelectSeq([k \in 1..Len(list) |-> [at |-> k, entry |-> list[k]]],
                            LAMBDA e : \A j \in 1..(e.at - 1) : list[j] # e.entry)
    IN  [k \in 1..Len(firsts) |-> Out(firsts[k].entry, i)]

\* for (const entry of list) returnData.push({ json: entry, pairedItem })
OnePerEntry(list, i) == [k \in 1..Len(list) |-> Out(list[k], i)]

\* the item's branch ran to its end: the loop moves to the next item
Finish(outputs, log) ==
    /\ returnData' = returnData \o outputs
    /\ itemIndex' = itemIndex
    /\ pc' = "next"
    /\ thrown' = thrown
    /\ reqLog' = log
    /\ outcome' = "ok"
    /\ itemError' = NoError

\* a catch block that rethrows whatever continueOnFail says
CatchRethrows(error, log) ==
    /\ reqLog' = log
    /\ outcome' = "failed"
    /\ itemError' = error
    /\ pc' = "thrown"
    /\ thrown' = error
    /\ UNCHANGED <<returnData, itemIndex>>

\* a catch block that sends a failed fetch loop round again
CatchRetries(error, log) ==
    /\ reqLog' = log
    /\ outcome' = "running"
    /\ itemError' = NoError
    /\ pc' = (IF operation = "getAll" /\ returnAll /\ resource = "email" THEN "cursorLoop"
              ELSE IF operation = "getAll" /\ returnAll /\ resource = "template" THEN "pageLoop"
              ELSE "next")
    /\ UNCHANGED <<returnData, itemIndex, thrown>>

\* a catch block that emits what the item had accumulated before it failed
CatchKeepsEntries(error, log) ==
    /\ reqLog' = log
    /\ outcome' = "failed"
    /\ itemError' = error
    /\ IF continueOnFail
       THEN /\ returnData' = (returnData \o OnePerEntry(entries, itemIndex))
                                \o <<Out([error |-> error.message], itemIndex)>>
            /\ itemIndex' = itemIndex
            /\ pc' = "next"
            /\ thrown' = thrown
       ELSE /\ returnData' = returnData \o OnePerEntry(entries, itemIndex)
            /\ pc' = "thrown"
            /\ thrown' = error
            /\ UNCHANGED itemIndex

\* a catch block that, without continueOnFail, ends the batch by returning
\* what the earlier items produced
CatchReturnsEarly(error, log) ==
    /\ reqLog' = log
    /\ outcome' = "failed"
    /\ itemError' = error
    /\ IF continueOnFail
       THEN /\ returnData' = Append(returnData, Out([error |-> error.message], itemIndex))
            /\ itemIndex' = itemIndex
            /\ pc' = "next"
            /\ thrown' = thrown
       ELSE /\ pc' = "returned"
            /\ thrown' = thrown
            /\ UNCHANGED <<returnData, itemIndex>>

\* the catch block
Catch(error, log) ==
    /\ reqLog' = log
    /\ outcome' = "failed"
    /\ itemError' = error
    /\ IF continueOnFail
       THEN /\ returnData' = Append(returnData, Out([error |-> error.message], itemIndex))
            /\ itemIndex' = itemIndex
            /\ pc' = "next"
            /\ thrown' = thrown
       ELSE /\ pc' = "thrown"
            /\ thrown' = error
            /\ UNCHANGED <<returnData, itemIndex>>

\* the loop is at the top of an iteration for an item of the given kind
AtItem(res, op) ==
    /\ pc = "item"
    /\ itemIndex < NumItems
    /\ resource = res
    /\ operation = op

\* history of an item that begins
BeginHistory == outStart' = Len(returnData)

Static == <<resource, operation, continueOnFail, returnAll, simplify>>

(* ---------------------------------------------------------------------- *)
(* email: getAll                                                           *)
(* ---------------------------------------------------------------------- *)
DefaultLimit == 50
PerPageAll == 100

\* values of recipients, fromDate, toDate and cursor
FilterInputs ==
    { [recipients |-> "", fromDate |-> "", toDate |-> "", cursor |-> ""],
      [recipients |-> "r@x.com", fromDate |-> "", toDate |-> "2025-01-31", cursor |-> "c0"],
      [recipients |-> "", fromDate |-> "2025-01-01", toDate |-> "", cursor |-> "c0"] }

\* returnAll, simplify, limit: limit is displayed, and set, only when returnAll is off
ListOptions ==
    { [returnAll |-> returnAll, simplify |-> simplify, limit |-> lm] :
        lm \in (IF returnAll THEN {DefaultLimit} ELSE 1..MaxLimit) }

EmailGetAllParams ==
    { f @@ lo : f \in FilterInputs, lo \in ListOptions }

\* responses of GET /emails
EmailListResponses ==
    { [data |-> [emails |-> l] @@ pg] :
        l \in Lists,
        pg \in {EmptyObject}
                \cup {[pagination |-> [next_cursor |-> c]] : c \in {"", Token(answered + 1)}} }
    \cup {EmptyObject}

EmailQueryBase(p) ==
    (IF Truthy(p.recipients) THEN [recipients |-> p.recipients] ELSE EmptyObject)
        @@ (IF Truthy(p.fromDate) THEN [from |-> p.fromDate] ELSE EmptyObject)
        @@ (IF Truthy(p.toDate) THEN [to |-> p.toDate] ELSE EmptyObject)

EmailSinglePageQs(p) ==
    EmailQueryBase(p) @@ [per_page |-> p.limit]
        @@ (IF Truthy(p.cursor) THEN [cursor |-> p.cursor] ELSE EmptyObject)

EmailCursorQs(p, c) ==
    EmailQueryBase(p) @@ [per_page |-> PerPageAll]
        @@ (IF Truthy(c) THEN [cursor |-> c] ELSE EmptyObject)

\* cursor = (pagination.next_cursor as string | undefined) ?? undefined
NextCursor(response) == Get(getPagination(response), "next_cursor")

\* an exhaustive fetch that emits nothing when it found nothing
ExhaustiveOutputSkipsEmpty(key, flat, all, i) ==
    IF all = <<>> THEN <<>>
    ELSE IF ~flat THEN <<Out([data |-> (key :> all)], i)>>
    ELSE [k \in 1..Len(all) |-> Out(all[k], i)]

\* output of an exhaustive fetch
ExhaustiveOutput(key, flat, all, i) ==
    IF ~flat
    THEN <<Out([data |-> (key :> all)], i)>>
    ELSE OnePerEntry(all, i)

\* output of a single-page fetch of a paginated resource
SinglePageOutput(key, flat, response, i) ==
    IF ~flat
    THEN <<Out(response, i)>>
    ELSE OnePerEntry(getResponseList(response, key), i)

EmailGetAllSinglePage ==
    /\ AtItem("email", "getAll")
    /\ \E p \in EmailGetAllParams :
         /\ ~p.returnAll
         /\ LET options == RequestOptions("GET", "/emails", EmptyObject, EmailSinglePageQs(p))
            IN  \E o \in Outcomes(EmailListResponses) :
                  /\ params' = p
                  /\ Served(o, "emails")
                  /\ IF o.ok
                     THEN Finish(SinglePageOutput("emails", p.simplify, o.response, itemIndex),
                                 <<Issued(options, TRUE, o.response)>>)
                     ELSE Catch(NodeApiError(itemIndex), <<Issued(options, FALSE, EmptyObject)>>)
    /\ BeginHistory
    /\ UNCHANGED <<Static, entries, cursor, page>>

\* } while (cursor), in a loop that gives up after its second request
CursorContinuesCapped(next) == Truthy(next) /\ Len(reqLog) < 1

\* } while (cursor), with a loop that also goes on when the cursor is ''
CursorContinuesUnlessUndefined(next) == next # Undefined

\* } while (cursor)
CursorContinues(next) == Truthy(next)

\* one iteration of the do-while loop, from the given locals, for the outcome
\* o of its request
CursorRound(p, ents, c, log, o) ==
    LET options == RequestOptions("GET", "/emails", EmptyObject, EmailCursorQs(p, c))
    IN  IF o.ok
        THEN LET all  == ents \o getResponseList(o.response, "emails")
                 next == NextCursor(o.response)
                 log2 == Append(log, Issued(options, TRUE, o.response))
             IN  /\ entries' = all
                 /\ cursor' = next
                 /\ IF CursorContinues(next)
                    THEN /\ pc' = "cursorLoop"
                         /\ reqLog' = log2
                         /\ outcome' = "running"
                         /\ itemError' = NoError
                         /\ UNCHANGED <<returnData, itemIndex, thrown>>
                    ELSE Finish(ExhaustiveOutput("emails", p.simplify, all, itemIndex), log2)
        ELSE /\ Catch(NodeApiError(itemIndex), Append(log, Issued(options, FALSE, EmptyObject)))
             /\ UNCHANGED <<entries, cursor>>

\* one iteration of the do-while loop, from the given locals
CursorIteration(p, ents, c, log) ==
    \E o \in Outcomes(EmailListResponses) :
        /\ Served(o, "emails")
        /\ CursorRound(p, ents, c, log, o)

\* const cursor = startingCursor || undefined
StartingCursor(p) == IF Truthy(p.cursor) THEN p.cursor ELSE Undefined

EmailGetAllBegin ==
    /\ AtItem("email", "getAll")
    /\ \E p \in EmailGetAllParams :
         /\ p.returnAll
         /\ params' = p
         /\ CursorIteration(p, <<>>, StartingCursor(p), <<>>)
    /\ BeginHistory
    /\ UNCHANGED <<Static, page>>

EmailCursorLoop ==
    /\ pc = "cursorLoop"
    /\ CursorIteration(params, entries, cursor, reqLog)
    /\ UNCHANGED <<Static, params, page, outStart>>

(* ---------------------------------------------------------------------- *)
(* domain, webhook: getAll                                                 *)
(* ---------------------------------------------------------------------- *)
\* responses of GET /domains and GET /webhooks
FullListResponses(key) ==
    {[data |-> (key :> l)] : l \in Lists} \cup {[data |-> (key :> l), total |-> Len(l)] : l \in Lists}
        \cup {EmptyObject}

\* a slice that keeps one entry too many
SliceKeepsOneMore(list, limit) ==
    SubSeq(list, 1, IF limit + 1 < Len(list) THEN limit + 1 ELSE Len(list))

\* list.slice(0, limit), for limit >= 0
Slice(list, limit) == SubSeq(list, 1, IF limit < Len(list) THEN limit ELSE Len(list))

\* const outputList = returnAll ? list : list.slice(0, limit)
OutputList(p, list) == IF p.returnAll THEN list ELSE Slice(list, p.limit)

\* { ...response, data: { ...getResponseData(response), [key]: outputList } }
WithList(response, key, outputList) ==
    [data |-> (key :> outputList) @@ getResponseData(response)] @@ response

FullListOutput(p, key, response, i) ==
    LET outputList == OutputList(p, getResponseList(response, key))
    IN  IF ~p.simplify
        THEN <<Out(WithList(response, key, outputList), i)>>
        ELSE OnePerEntry(outputList, i)

FullListGetAll(res, endpoint, key) ==
    /\ AtItem(res, "getAll")
    /\ \E p \in ListOptions :
         LET options == RequestOptions("GET", endpoint, EmptyObject, EmptyObject)
         IN  \E o \in Outcomes(FullListResponses(key)) :
               /\ params' = p
               /\ Served(o, key)
               /\ IF o.ok
                  THEN Finish(FullListOutput(p, key, o.response, itemIndex),
                              <<Issued(options, TRUE, o.response)>>)
                  ELSE Catch(NodeApiError(itemIndex), <<Issued(options, FALSE, EmptyObject)>>)
    /\ BeginHistory
    /\ UNCHANGED <<Static, entries, cursor, page>>

DomainGetAll == FullListGetAll("domain", "/domains", "domains")

WebhookGetAll == FullListGetAll("webhook", "/webhooks", "webhooks")

(* ---------------------------------------------------------------------- *)
(* template: getAll                                                        *)
(* ---------------------------------------------------------------------- *)
\* values of templateProjectId and templatePage
PageInputs ==
    { [templateProjectId |-> 0, templatePage |-> 1],
      [templateProjectId |-> 7, templatePage |-> 0],
      [templateProjectId |-> 7, templatePage |-> 2] }

TemplateGetAllParams == { f @@ lo : f \in PageInputs, lo \in ListOptions }

PageNumbers == 1..MaxPage

\* responses of GET /templates
TemplateListResponses ==
    { [data |-> [templates |-> l, pagination |-> cp @@ lp]] :
        l \in Lists,
        cp \in {EmptyObject} \cup {[current_page |-> n] : n \in PageNumbers},
        lp \in {EmptyObject} \cup {[last_page |-> n] : n \in PageNumbers} }
    \cup {EmptyObject}

TemplateQueryBase(p) ==
    IF p.templateProjectId > 0 THEN [project_id |-> p.templateProjectId] ELSE EmptyObject

TemplateSinglePageQs(p) ==
    TemplateQueryBase(p) @@ [per_page |-> p.limit, page |-> p.templatePage]

TemplatePageQs(p, pg) == TemplateQueryBase(p) @@ [per_page |-> PerPageAll, page |-> pg]

\* a current page counted locally, whatever the response reports
CurrentPageLocal(response, pg) == pg

\* Number(pagination.current_page ?? page)
CurrentPage(response, pg) ==
    LET pagination == getPagination(response)
    IN  IF Has(pagination, "current_page") THEN pagination.current_page ELSE pg

\* Number(pagination.last_page ?? currentPage)
LastPage(response, currentPage) ==
    LET pagination == getPagination(response)
    IN  IF Has(pagination, "last_page") THEN pagination.last_page ELSE currentPage

\* hasMore, with a test that gives up one page early
HasMoreBeforeLast(currentPage, lastPage) == currentPage + 1 < lastPage

\* hasMore = currentPage < lastPage
HasMore(currentPage, lastPage) == currentPage < lastPage

\* let page = Math.max(1, startingPage)
FirstPage(p) == IF p.templatePage > 1 THEN p.templatePage ELSE 1

TemplateGetAllSinglePage ==
    /\ AtItem("template", "getAll")
    /\ \E p \in TemplateGetAllParams :
         /\ ~p.returnAll
         /\ LET options == RequestOptions("GET", "/templates", EmptyObject, TemplateSinglePageQs(p))
            IN  \E o \in Outcomes(TemplateListResponses) :
                  /\ params' = p
                  /\ Served(o, "templates")
                  /\ IF o.ok
                     THEN Finish(SinglePageOutput("templates", p.simplify, o.response, itemIndex),
                                 <<Issued(options, TRUE, o.response)>>)
                     ELSE Catch(NodeApiError(itemIndex), <<Issued(options, FALSE, EmptyObject)>>)
    /\ BeginHistory
    /\ UNCHANGED <<Static, entries, cursor, page>>

\* one iteration of the while (hasMore) loop, from the given locals
PageIteration(p, ents, pg, log) ==
    LET options == RequestOptions("GET", "/templates", EmptyObject, TemplatePageQs(p, pg))
    IN  \E o \in Outcomes(TemplateListResponses) :
          /\ Served(o, "templates")
          /\ IF o.ok
             THEN LET all         == ents \o getResponseList(o.response, "templates")
                      currentPage == CurrentPage(o.response, pg)
                      lastPage    == LastPage(o.response, currentPage)
                      log2        == Append(log, Issued(options, TRUE, o.response))
                  IN  /\ entries' = all
                      /\ page' = currentPage + 1
                      /\ IF HasMore(currentPage, lastPage)
                         THEN /\ pc' = "pageLoop"
                              /\ reqLog' = log2
                              /\ outcome' = "running"
                              /\ itemError' = NoError
                              /\ UNCHANGED <<returnData, itemIndex, thrown>>
                         ELSE Finish(ExhaustiveOutput("templates", p.simplify, all, itemIndex), log2)
             ELSE /\ Catch(NodeApiError(itemIndex), Append(log, Issued(options, FALSE, EmptyObject)))
                  /\ UNCHANGED <<entries, page>>

TemplateGetAllBegin ==
    /\ AtItem("template", "getAll")
    /\ \E p \in TemplateGetAllParams :
         /\ p.returnAll
         /\ params' = p
         /\ PageIteration(p, <<>>, FirstPage(p), <<>>)
    /\ BeginHistory
    /\ UNCHANGED <<Static, cursor>>

TemplatePageLoop ==
    /\ pc = "pageLoop"
    /\ PageIteration(params, entries, page, reqLog)
    /\ UNCHANGED <<Static, params, cursor, outStart>>

(* ---------------------------------------------------------------------- *)
(* email: send                                                             *)
(* ---------------------------------------------------------------------- *)
\* recipient strings are sequences of characters
Separators == {",", "\n", ";"}
Whitespace == {" ", "\t", "\n"}

\* value.split(/[,\n;]/g): the pieces between separators, empty ones included
RECURSIVE SplitFrom(_, _, _)
SplitFrom(value, k, piece) ==
    IF k > Len(value) THEN <<piece>>
    ELSE IF value[k] \in Separators
         THEN <<piece>> \o SplitFrom(value, k + 1, <<>>)
         ELSE SplitFrom(value, k + 1, Append(piece, value[k]))

Split(value) == SplitFrom(value, 1, <<>>)

\* entry.trim()
RECURSIVE TrimStart(_)
TrimStart(entry) ==
    IF entry # <<>> /\ Head(entry) \in Whitespace THEN TrimStart(Tail(entry)) ELSE entry

RECURSIVE TrimEnd(_)
TrimEnd(entry) ==
    IF entry # <<>> /\ entry[Len(entry)] \in Whitespace
    THEN TrimEnd(SubSeq(entry, 1, Len(entry) - 1))
    ELSE entry

Trim(entry) == TrimEnd(TrimStart(entry))

NonEmpty(entry) == Len(entry) > 0

splitRecipientList(value) ==
    LET pieces == Split(value)
    IN  SelectSeq([k \in 1..Len(pieces) |-> Trim(pieces[k])], NonEmpty)

\* JSON texts of the free-text JSON fields, and what JSON.parse makes of the valid one
ValidJson == "{\"k\":1}"
MalformedJson == "{k"
JsonParses(text) == text = ValidJson
JsonParse(text) == [k |-> 1]

\* parseOptionalJson: the parsed value, or the NodeOperationError it throws
parseOptionalJson(value, fieldName, i) ==
    IF JsonParses(value)
    THEN [ok |-> TRUE, value |-> JsonParse(value)]
    ELSE [ok |-> FALSE, error |-> NodeOperationError(fieldName, i)]

\* the options of the additionalFields collection, by type
StringFields == {"fromName", "replyTo", "replyToName", "ampHtml"}
NumberFields == {"projectId", "templateVersion", "campaignId"}
RecipientFields == {"cc", "bcc"}
JsonFields == <<"metadataJson", "substitutionDataJson", "optionsJson", "attachmentsJson">>
JsonFieldSet == {JsonFields[k] : k \in 1..Len(JsonFields)}

\* the field of the request body each option is sent as
WireName ==
    [ fromName |-> "from_name", replyTo |-> "reply_to", replyToName |-> "reply_to_name",
      ampHtml |-> "amp_html", projectId |-> "project_id",
      templateVersion |-> "template_version", campaignId |-> "campaign_id",
      cc |-> "cc", bcc |-> "bcc", metadataJson |-> "metadata",
      substitutionDataJson |-> "substitution_data", optionsJson |-> "options",
      attachmentsJson |-> "attachments" ]

\* the message parseOptionalJson is given for each JSON field
JsonFieldLabel ==
    [ metadataJson |-> "\"Metadata (JSON)\" must be valid JSON when provided.",
      substitutionDataJson |-> "\"Substitution Data (JSON)\" must be valid JSON when provided.",
      optionsJson |-> "\"Options (JSON)\" must be valid JSON when provided.",
      attachmentsJson |-> "\"Attachments (JSON)\" must be valid JSON when provided." ]

\* JavaScript truthiness of the value of an option, by type
FieldTruthy(af, name) ==
    /\ Has(af, name)
    /\ IF name \in NumberFields THEN af[name] # 0
       ELSE IF name \in RecipientFields THEN Len(af[name]) > 0
       ELSE af[name] # ""

\* values of toInput, cc and bcc
TwoRecipients == <<"a", ",", " ", "b">>
OnlySeparators == <<" ", ",", ";", " ">>
SpecExample == <<"a", ",", " ", "b", ";", "c", "\n", "d">>
RecipientInputs == {<<>>, OnlySeparators, TwoRecipients, SpecExample}

\* values of additionalFields: nothing, one option, or every option
FieldValues(name) ==
    IF name \in NumberFields THEN {0, 7}
    ELSE IF name \in RecipientFields THEN {<<>>, OnlySeparators, TwoRecipients}
    ELSE IF name \in JsonFieldSet THEN {"", ValidJson, MalformedJson}
    ELSE {"", "v"}

AllOptions == StringFields \cup NumberFields \cup RecipientFields \cup JsonFieldSet

EveryOption ==
    [ name \in AllOptions |->
        IF name \in NumberFields THEN 7
        ELSE IF name \in RecipientFields THEN TwoRecipients
        ELSE IF name \in JsonFieldSet THEN ValidJson
        ELSE "v" ]

AdditionalFieldsInputs ==
    {EmptyObject, EveryOption}
        \cup UNION { {name :> v : v \in FieldValues(name)} : name \in AllOptions }

\* values of html, text and templateSlug
ContentInputs ==
    { [html |-> "", text |-> "", templateSlug |-> ""],
      [html |-> "<p>hi</p>", text |-> "", templateSlug |-> ""],
      [html |-> "", text |-> "hi", templateSlug |-> "welcome"],
      [html |-> "<p>hi</p>", text |-> "hi", templateSlug |-> "welcome"] }

SendParams ==
    { c @@ [from |-> "s@x.com", subject |-> "hello", to |-> t, additionalFields |-> af] :
        c \in ContentInputs, t \in RecipientInputs, af \in AdditionalFieldsInputs }

SendResponses == { [message |-> "queued", data |-> [request_id |-> "e1"]] }

\* body[wire] = value for every option the collection holds, falsy or not
PlainFieldWhenSet(af, name) ==
    IF Has(af, name) THEN WireName[name] :> af[name] ELSE EmptyObject

\* if (value) body[wire] = value, for the plain options
PlainField(af, name) ==
    IF FieldTruthy(af, name) THEN WireName[name] :> af[name] ELSE EmptyObject

\* if (value) body[wire] = splitRecipientList(value), for cc and bcc
RecipientField(af, name) ==
    IF FieldTruthy(af, name) THEN WireName[name] :> splitRecipientList(af[name]) ELSE EmptyObject

\* if (value) body[wire] = parseOptionalJson(value, ...), for the JSON fields
JsonField(af, name) ==
    IF FieldTruthy(af, name) THEN WireName[name] :> JsonParse(af[name]) ELSE EmptyObject

\* the first JSON field, in the order of the code, whose parse throws
RECURSIVE FirstJsonError(_, _, _)
FirstJsonError(af, k, i) ==
    IF k > Len(JsonFields) THEN NoError
    ELSE IF FieldTruthy(af, JsonFields[k])
            /\ ~parseOptionalJson(af[JsonFields[k]], JsonFieldLabel[JsonFields[k]], i).ok
         THEN parseOptionalJson(af[JsonFields[k]], JsonFieldLabel[JsonFields[k]], i).error
         ELSE FirstJsonError(af, k + 1, i)

\* the error the send branch throws before it issues its request, or NoError
SendValidation(p, i) ==
    IF ~Truthy(p.html) /\ ~Truthy(p.text) /\ ~Truthy(p.templateSlug)
    THEN NodeOperationError("Provide at least one of: HTML, Text, or Template Slug.", i)
    ELSE IF Len(splitRecipientList(p.to)) = 0
         THEN NodeOperationError("\"To\" must contain at least one valid recipient.", i)
         ELSE FirstJsonError(p.additionalFields, 1, i)

\* the body of POST /emails
SendBody(p) ==
    LET af == p.additionalFields
    IN  [from |-> p.from, to |-> splitRecipientList(p.to), subject |-> p.subject]
          @@ (IF Truthy(p.html) THEN [html |-> p.html] ELSE EmptyObject)
          @@ (IF Truthy(p.text) THEN [text |-> p.text] ELSE EmptyObject)
          @@ (IF Truthy(p.templateSlug) THEN [template_slug |-> p.templateSlug] ELSE EmptyObject)
          @@ PlainField(af, "fromName")
          @@ PlainField(af, "replyTo")
          @@ PlainField(af, "replyToName")
          @@ PlainField(af, "ampHtml")
          @@ PlainField(af, "projectId")
          @@ PlainField(af, "templateVersion")
          @@ PlainField(af, "campaignId")
          @@ RecipientField(af, "cc")
          @@ RecipientField(af, "bcc")
          @@ JsonField(af, "metadataJson")
          @@ JsonField(af, "substitutionDataJson")
          @@ JsonField(af, "optionsJson")
          @@ JsonField(af, "attachmentsJson")

\* a send branch that validates once the request has been answered
SendItemLateValidation(p) ==
    LET invalid == SendValidation(p, itemIndex)
        options == RequestOptions("POST", "/emails", SendBody(p), EmptyObject)
    IN  \E o \in Outcomes(SendResponses) :
          /\ answered' = answered + (IF o.ok THEN 1 ELSE 0)
          /\ IF ~o.ok
             THEN Catch(NodeApiError(itemIndex), <<Issued(options, FALSE, EmptyObject)>>)
             ELSE IF invalid # NoError
                  THEN Catch(invalid, <<Issued(options, TRUE, o.response)>>)
                  ELSE Finish(<<Out(o.response, itemIndex)>>,
                              <<Issued(options, TRUE, o.response)>>)

\* the send branch of one item, validation first
SendItem(p) ==
    LET invalid == SendValidation(p, itemIndex)
        options == RequestOptions("POST", "/emails", SendBody(p), EmptyObject)
    IN  IF invalid # NoError
        THEN /\ Catch(invalid, <<>>)
             /\ UNCHANGED answered
        ELSE \E o \in Outcomes(SendResponses) :
               /\ answered' = answered + (IF o.ok THEN 1 ELSE 0)
               /\ IF o.ok
                  THEN Finish(<<Out(o.response, itemIndex)>>, <<Issued(options, TRUE, o.response)>>)
                  ELSE Catch(NodeApiError(itemIndex), <<Issued(options, FALSE, EmptyObject)>>)

EmailSend ==
    /\ AtItem("email", "send")
    /\ \E p \in SendParams :
         /\ params' = p
         /\ SendItem(p)
    /\ BeginHistory
    /\ UNCHANGED <<Static, entries, cursor, page, delivered>>

(* ---------------------------------------------------------------------- *)
(* email: get                                                              *)
(* ---------------------------------------------------------------------- *)
RequestIds == {"e1", "e2"}

\* `/emails/${requestId}`
EmailUrl(requestId) == IF requestId = "e1" THEN "/emails/e1" ELSE "/emails/e2"

EmailDetailResponses(requestId) ==
    { [data |-> [request_id |-> requestId, state |-> st]] : st \in {"delivered", "bounced"} }

EmailGet ==
    /\ AtItem("email", "get")
    /\ \E requestId \in RequestIds :
         LET options == RequestOptions("GET", EmailUrl(requestId), EmptyObject, EmptyObject)
         IN  \E o \in Outcomes(EmailDetailResponses(requestId)) :
               /\ params' = [requestId |-> requestId]
               /\ answered' = answered + (IF o.ok THEN 1 ELSE 0)
               /\ IF o.ok
                  THEN Finish(<<Out(o.response, itemIndex)>>, <<Issued(options, TRUE, o.response)>>)
                  ELSE Catch(NodeApiError(itemIndex), <<Issued(options, FALSE, EmptyObject)>>)
    /\ BeginHistory
    /\ UNCHANGED <<Static, entries, cursor, page, delivered>>

(* ---------------------------------------------------------------------- *)
(* (resource, operation) pairs no branch of execute matches                *)
(* ---------------------------------------------------------------------- *)
Handled ==
    { <<"email", "send">>, <<"email", "get">>, <<"email", "getAll">>,
      <<"domain", "getAll">>, <<"template", "getAll">>, <<"webhook", "getAll">> }

NoBranch ==
    /\ pc = "item"
    /\ itemIndex < NumItems
    /\ <<resource, operation>> \notin Handled
    /\ params' = EmptyObject
    /\ Finish(<<>>, <<>>)
    /\ BeginHistory
    /\ UNCHANGED <<Static, entries, cursor, page, answered, delivered>>

(* ---------------------------------------------------------------------- *)
(* itemIndex++, the loop test, and return [returnData]                     *)
(* ---------------------------------------------------------------------- *)
NextItem ==
    /\ pc = "next"
    /\ itemIndex' = itemIndex + 1
    /\ pc' = IF itemIndex + 1 < NumItems THEN "item" ELSE "returned"
    /\ params' = EmptyObject
    /\ entries' = <<>>
    /\ cursor' = Undefined
    /\ page' = 1
    /\ reqLog' = <<>>
    /\ outStart' = Len(returnData)
    /\ outcome' = "none"
    /\ itemError' = NoError
    /\ UNCHANGED <<Static, returnData, thrown, answered, delivered>>

Next ==
    \/ EmailGetAllSinglePage
    \/ EmailGetAllBegin
    \/ EmailCursorLoop
    \/ DomainGetAll
    \/ WebhookGetAll
    \/ TemplateGetAllSinglePage
    \/ TemplateGetAllBegin
    \/ TemplatePageLoop
    \/ EmailSend
    \/ EmailGet
    \/ NoBranch
    \/ NextItem

Spec == Init /\ [][Next]_vars

(* ---------------------------------------------------------------------- *)
(* Exhaustive email fetches against a server that never runs out of        *)
(* answers                                                                 *)
(* ---------------------------------------------------------------------- *)
\* the history keeps the last MaxReq requests of the item
Recent(log) == IF Len(log) >= MaxReq THEN Tail(log) ELSE log

\* what awaiting httpRequestWithAuthentication can produce, at any time
EndlessOutcomes(responses) ==
    {[ok |-> FALSE, response |-> EmptyObject]}
        \cup {[ok |-> TRUE, response |-> r] : r \in responses}

\* the server's bookkeeping: it numbers its responses up to MaxReq and then
\* steps back by one, so that it goes on handing out its last two cursors in turn
EndlessServed(o, key) ==
    /\ answered' = (IF ~o.ok THEN answered
                    ELSE IF answered < MaxReq THEN answered + 1
                    ELSE MaxReq - 1)
    /\ delivered' = delivered + Len(getResponseList(o.response, key))

EndlessCursorIteration(p, ents, c, log) ==
    \E o \in EndlessOutcomes(EmailListResponses) :
        /\ EndlessServed(o, "emails")
        /\ CursorRound(p, ents, c, Recent(log), o)

EndlessInit ==
    /\ Init
    /\ resource = "email"
    /\ operation = "getAll"
    /\ returnAll

EndlessGetAllBegin ==
    /\ AtItem("email", "getAll")
    /\ \E p \in EmailGetAllParams :
         /\ p.returnAll
         /\ params' = p
         /\ EndlessCursorIteration(p, <<>>, StartingCursor(p), <<>>)
    /\ BeginHistory
    /\ UNCHANGED <<Static, page>>

EndlessCursorLoop ==
    /\ pc = "cursorLoop"
    /\ EndlessCursorIteration(params, entries, cursor, reqLog)
    /\ UNCHANGED <<Static, params, page, outStart>>

EndlessNext ==
    \/ EndlessGetAllBegin
    \/ EndlessCursorLoop
    \/ NextItem

\* execute runs on: a request is answered or rejected, and the loop steps
EndlessSpec == EndlessInit /\ [][EndlessNext]_vars /\ WF_vars(EndlessNext)

(* ---------------------------------------------------------------------- *)
(* Properties                                                              *)
(* ---------------------------------------------------------------------- *)
\* the item itemIndex has just been processed, without or with an error
ItemDone == pc = "next" /\ outcome = "ok"
ItemFailed == outcome = "failed"

\* the records pushed for the current item
ItemOut == SubSeq(returnData, outStart + 1, Len(returnData))

\* what a response carries, read off the envelope
RawList(r, key) ==
    IF "data" \in DOMAIN r /\ key \in DOMAIN r.data THEN r.data[key] ELSE <<>>

RawPagination(r) ==
    IF "data" \in DOMAIN r /\ "pagination" \in DOMAIN r.data THEN r.data.pagination ELSE <<>>

\* the next_cursor of a response, "" when it has none
RawCursor(r) ==
    IF "next_cursor" \in DOMAIN RawPagination(r) THEN RawPagination(r).next_cursor ELSE ""

\* a query parameter of a request is set
Sent(req, name) == "qs" \in DOMAIN req.options /\ name \in DOMAIN req.options.qs

\* the cursor a request carries, "" when it carries none
SentCursor(req) == IF Sent(req, "cursor") THEN req.options.qs.cursor ELSE ""

\* the lists of the first k responses of the current item, concatenated
RECURSIVE Concatenated(_, _)
Concatenated(key, k) ==
    IF k = 0 THEN <<>> ELSE Concatenated(key, k - 1) \o RawList(reqLog[k].response, key)

IsGet(req, url) == req.options.method = "GET" /\ req.options.url = url

ExhaustiveEmails == resource = "email" /\ operation = "getAll" /\ returnAll
ExhaustiveTemplates == resource = "template" /\ operation = "getAll" /\ returnAll

\* C1: in an exhaustive fetch of emails every request is a GET /emails; a
\* request follows a response exactly when that response carries a non-empty
\* next_cursor, and it carries that cursor; so k-1 responses with a cursor and
\* a k-th without make exactly k requests, and the entries accumulated are the
\* k lists concatenated in request order.
CursorFetchAll ==
    ExhaustiveEmails =>
        /\ \A j \in 1..Len(reqLog) : IsGet(reqLog[j], "/emails")
        /\ \A j \in 1..(Len(reqLog) - 1) :
              /\ reqLog[j].ok
              /\ RawCursor(reqLog[j].response) # ""
              /\ SentCursor(reqLog[j + 1]) = RawCursor(reqLog[j].response)
        /\ pc = "cursorLoop" =>
              /\ Len(reqLog) >= 1
              /\ reqLog[Len(reqLog)].ok
              /\ RawCursor(reqLog[Len(reqLog)].response) # ""
        /\ ItemDone =>
              /\ Len(reqLog) >= 1
              /\ RawCursor(reqLog[Len(reqLog)].response) = ""
              /\ entries = Concatenated("emails", Len(reqLog))

\* C1 witness: three responses, the first two with a cursor, and two entries
CursorFetchAllWitness ==
    /\ ExhaustiveEmails
    /\ ItemDone
    /\ Len(reqLog) = 3
    /\ Len(entries) = 2
    /\ Len(RawList(reqLog[1].response, "emails")) = 1
    /\ Len(RawList(reqLog[3].response, "emails")) = 1

\* what a response of GET /templates reports
HasPages(r) ==
    "current_page" \in DOMAIN RawPagination(r) /\ "last_page" \in DOMAIN RawPagination(r)

OnLastPage(r) == RawPagination(r).current_page >= RawPagination(r).last_page

SentPage(req) == req.options.qs.page

\* the server has answered (1,n), (2,n), ... to the requests of the current item
AnswersInSequence(n) ==
    /\ Len(reqLog) >= 1
    /\ \A j \in 1..Len(reqLog) :
          /\ reqLog[j].ok
          /\ HasPages(reqLog[j].response)
          /\ RawPagination(reqLog[j].response).current_page = j
          /\ RawPagination(reqLog[j].response).last_page = n

\* the page loop goes on after a response exactly when it is not on the last page
StopsOnLastPage ==
    /\ \A j \in 1..(Len(reqLog) - 1) :
          /\ reqLog[j].ok
          /\ HasPages(reqLog[j].response) => ~OnLastPage(reqLog[j].response)
    /\ pc = "pageLoop" =>
          /\ Len(reqLog) >= 1
          /\ reqLog[Len(reqLog)].ok
          /\ HasPages(reqLog[Len(reqLog)].response) => ~OnLastPage(reqLog[Len(reqLog)].response)
    /\ ItemDone =>
          /\ Len(reqLog) >= 1
          /\ HasPages(reqLog[Len(reqLog)].response) => OnLastPage(reqLog[Len(reqLog)].response)
          /\ entries = Concatenated("templates", Len(reqLog))

\* C2 as stated: in an exhaustive fetch of templates every request is a GET
\* /templates and the loop stops after the first response with current_page >=
\* last_page and not before; against a server answering (1,n), ..., (n,n)
\* exactly n requests are issued, the j-th with page = j, and the n lists are
\* accumulated in order.
PageFetchAllFromOne ==
    ExhaustiveTemplates =>
        /\ \A j \in 1..Len(reqLog) : IsGet(reqLog[j], "/templates")
        /\ StopsOnLastPage
        /\ \A n \in 1..(MaxPage + 1) :
              AnswersInSequence(n) =>
                  /\ Len(reqLog) <= n
                  /\ ItemDone => Len(reqLog) = n
                  /\ \A j \in 1..Len(reqLog) : SentPage(reqLog[j]) = j

\* C2 amended: the same, but the first request carries page = max(1, starting
\* page), and only the later ones page = 2, ..., n.
PageFetchAll ==
    ExhaustiveTemplates =>
        /\ \A j \in 1..Len(reqLog) : IsGet(reqLog[j], "/templates")
        /\ StopsOnLastPage
        /\ \A n \in 1..(MaxPage + 1) :
              AnswersInSequence(n) =>
                  /\ Len(reqLog) <= n
                  /\ ItemDone => Len(reqLog) = n
                  /\ SentPage(reqLog[1]) =
                        (IF params.templatePage >= 1 THEN params.templatePage ELSE 1)
                  /\ \A j \in 2..Len(reqLog) : SentPage(reqLog[j]) = j

\* C2 witness: (1,3), (2,3), (3,3) answered to a fetch that began on page 2
PageFetchAllWitness ==
    /\ ExhaustiveTemplates
    /\ ItemDone
    /\ AnswersInSequence(3)
    /\ Len(reqLog) = 3
    /\ params.templatePage = 2
    /\ Len(entries) = 2

\* the error record of the current item
ErrorRecord == [json |-> [error |-> itemError.message], pairedItem |-> itemIndex]

\* C3: with continueOnFail on, execute never throws; an item that fails, by
\* validation or by a failed request, contributes exactly the one record
\* {error: message} paired to its index and the loop goes on to the next item;
\* no step changes a record pushed earlier.
FailureTolerant ==
    /\ [](continueOnFail =>
            /\ pc # "thrown"
            /\ thrown = NoError
            /\ ItemFailed => (pc = "next" /\ ItemOut = <<ErrorRecord>>))
    /\ [][ /\ Len(returnData') >= Len(returnData)
            /\ SubSeq(returnData', 1, Len(returnData)) = returnData
            /\ (continueOnFail /\ ItemFailed) =>
                  /\ itemIndex' = itemIndex + 1
                  /\ pc' = (IF itemIndex + 1 < NumItems THEN "item" ELSE "returned") ]_vars

\* C3 witness: item 0 failed and left its error record, item 1 then succeeded
FailureTolerantWitness ==
    /\ continueOnFail
    /\ itemIndex = 1
    /\ ItemDone
    /\ Len(returnData) = 2
    /\ DOMAIN returnData[1].json = {"error"}
    /\ returnData[1].pairedItem = 0
    /\ returnData[2].pairedItem = 1

SendOperation == resource = "email" /\ operation = "send"

\* the ways a send input is invalid, read off the input
NoContent(p) == p.html = "" /\ p.text = "" /\ p.templateSlug = ""

NoRecipient(p) == \A k \in 1..Len(p.to) : p.to[k] \in {",", ";", "\n", " ", "\t"}

BadJson(p) ==
    \E f \in {"metadataJson", "substitutionDataJson", "optionsJson", "attachmentsJson"} :
        f \in DOMAIN p.additionalFields /\ p.additionalFields[f] = MalformedJson

\* C4: a send item that fails validation (no content, no recipient, malformed
\* JSON) fails with a NodeOperationError carrying its item index and has issued
\* no request; no NodeOperationError is raised after a request.
SendValidatesFirst ==
    (SendOperation /\ pc \in {"next", "thrown"}) =>
        /\ (NoContent(params) \/ NoRecipient(params) \/ BadJson(params)) =>
              /\ ItemFailed
              /\ itemError.kind = "NodeOperationError"
              /\ itemError.itemIndex = itemIndex
              /\ reqLog = <<>>
        /\ (ItemFailed /\ itemError.kind = "NodeOperationError") => reqLog = <<>>

\* C4 witness: the second item has content and recipients, and malformed JSON
SendValidatesFirstWitness ==
    /\ SendOperation
    /\ pc \in {"next", "thrown"}
    /\ itemIndex = 1
    /\ ~NoContent(params)
    /\ ~NoRecipient(params)
    /\ BadJson(params)
    /\ itemError.itemIndex = 1
    /\ reqLog = <<>>

FullListResource == resource \in {"domain", "webhook"} /\ operation = "getAll"
FullListKey == IF resource = "domain" THEN "domains" ELSE "webhooks"
FullListUrl == IF resource = "domain" THEN "/domains" ELSE "/webhooks"

Min(a, b) == IF a < b THEN a ELSE b

\* C5: for domains and webhooks with simplify on, one GET without query
\* parameters is issued and the output is the first min(limit, n) entries of
\* the server's list, unmodified and in order; all n when returnAll is on.
FullListTruncated ==
    (FullListResource /\ simplify /\ ItemDone) =>
        /\ Len(reqLog) = 1
        /\ IsGet(reqLog[1], FullListUrl)
        /\ "qs" \notin DOMAIN reqLog[1].options
        /\ LET list == RawList(reqLog[1].response, FullListKey)
               m    == IF returnAll THEN Len(list) ELSE Min(params.limit, Len(list))
           IN  /\ Len(ItemOut) = m
               /\ \A k \in 1..m : ItemOut[k] = [json |-> list[k], pairedItem |-> itemIndex]

\* C5 witness: limit 1 on a list of two
FullListTruncatedWitness ==
    /\ FullListResource
    /\ simplify
    /\ ~returnAll
    /\ ItemDone
    /\ params.limit = 1
    /\ Len(RawList(reqLog[1].response, FullListKey)) = 2
    /\ Len(ItemOut) = 1

ExhaustiveKey == IF resource = "email" THEN "emails" ELSE "templates"

\* C6: an exhaustive fetch of emails or templates that accumulated N entries
\* emits, with simplify off, the one record {data: {<listField>: entries}} and
\* nothing else in it, also when N = 0; with simplify on, N records, one per
\* entry, in order.
ExhaustiveShape ==
    ((ExhaustiveEmails \/ ExhaustiveTemplates) /\ ItemDone) =>
        LET all == Concatenated(ExhaustiveKey, Len(reqLog))
        IN  IF ~simplify
            THEN /\ Len(ItemOut) = 1
                 /\ ItemOut[1].pairedItem = itemIndex
                 /\ DOMAIN ItemOut[1].json = {"data"}
                 /\ DOMAIN ItemOut[1].json.data = {ExhaustiveKey}
                 /\ ItemOut[1].json.data[ExhaustiveKey] = all
            ELSE /\ Len(ItemOut) = Len(all)
                 /\ \A k \in 1..Len(all) :
                       ItemOut[k] = [json |-> all[k], pairedItem |-> itemIndex]

\* C6 witness: two pages, two entries, simplify off
ExhaustiveShapeWitness ==
    /\ ExhaustiveEmails \/ ExhaustiveTemplates
    /\ ItemDone
    /\ ~simplify
    /\ Len(reqLog) = 2
    /\ Len(ItemOut) = 1
    /\ Len(ItemOut[1].json.data[ExhaustiveKey]) = 2

\* C7: a get-many with returnAll off and simplify on emits at most limit
\* records for the item, whatever the server answers.
LimitHonoured ==
    (operation = "getAll" /\ ~returnAll /\ simplify /\ ItemDone) =>
        Len(ItemOut) <= params.limit

\* the json of the records pushed for the current item
ItemJsons == [k \in 1..Len(ItemOut) |-> ItemOut[k].json]

PaginatedResource == resource \in {"email", "template"}
ListKey ==
    IF resource = "email" THEN "emails"
    ELSE IF resource = "template" THEN "templates"
    ELSE FullListKey

AtMostOnce ==
    /\ \A j \in 1..(Len(reqLog) - 1) : reqLog[j].ok
    /\ (Len(reqLog) >= 1 /\ ~reqLog[Len(reqLog)].ok) =>
          /\ ItemFailed
          /\ itemError = NodeApiError(itemIndex)
          /\ pc \in {"next", "thrown"}
    /\ (ItemFailed /\ itemError.kind = "NodeApiError") =>
          /\ Len(reqLog) >= 1
          /\ ~reqLog[Len(reqLog)].ok

\* C9 witness: the third request of an exhaustive fetch failed
AtMostOnceWitness ==
    /\ ExhaustiveEmails \/ ExhaustiveTemplates
    /\ ItemFailed
    /\ Len(reqLog) = 3
    /\ reqLog[1].ok
    /\ reqLog[2].ok
    /\ ~reqLog[3].ok

\* the body of the POST the current send item issued
PostIssued == SendOperation /\ Len(reqLog) = 1
PostBody == reqLog[1].options.body

ContentWires ==
    {w \in {"html", "text", "template_slug"} :
        \/ w = "html" /\ params.html # ""
        \/ w = "text" /\ params.text # ""
        \/ w = "template_slug" /\ params.templateSlug # ""}

NumericOptions == {"projectId", "templateVersion", "campaignId"}
RecipientOptions == {"cc", "bcc"}

\* an option the caller supplied: a number, or a non-empty string
Supplied(af) ==
    {f \in DOMAIN af :
        IF f \in NumericOptions THEN TRUE
        ELSE IF f \in RecipientOptions THEN Len(af[f]) > 0
        ELSE af[f] # ""}

\* an option the caller supplied with a truthy value: a non-zero number, or a
\* non-empty string
SuppliedTruthy(af) ==
    {f \in DOMAIN af :
        IF f \in NumericOptions THEN af[f] # 0
        ELSE IF f \in RecipientOptions THEN Len(af[f]) > 0
        ELSE af[f] # ""}

\* C10 as stated: the body of POST /emails holds from, to, subject and exactly
\* the optional fields the caller supplied, a supplied number included.
SendBodySupplied ==
    PostIssued =>
        DOMAIN PostBody =
            {"from", "to", "subject"} \cup ContentWires
                \cup {WireName[f] : f \in Supplied(params.additionalFields)}

\* C10 amended: the body of POST /emails holds from, to, subject and exactly
\* the optional fields the caller supplied with a truthy value: a non-empty
\* string or a non-zero number.
SendBodyTruthy ==
    PostIssued =>
        /\ DOMAIN PostBody =
              {"from", "to", "subject"} \cup ContentWires
                  \cup {WireName[f] : f \in SuppliedTruthy(params.additionalFields)}
        /\ PostBody.from = params.from
        /\ PostBody.subject = params.subject
        /\ Len(PostBody.to) >= 1

\* C10 witness: projectId 0 supplied, and the POST issued without project_id
SendBodyTruthyWitness ==
    /\ PostIssued
    /\ "projectId" \in DOMAIN params.additionalFields
    /\ params.additionalFields.projectId = 0
    /\ "project_id" \notin DOMAIN PostBody
    /\ Len(PostBody.to) = 4

(* ---------------------------------------------------------------------- *)
(* Supported operations                                                    *)
(* ---------------------------------------------------------------------- *)
\* the options of the operation parameter shown for each resource
OperationOptions ==
    [res \in Resources |->
        IF res = "email" THEN {"get", "send"} ELSE {"getAll"}]

\* "Supported resources and operations" of the README
ReadmeOperations ==
    [res \in Resources |->
        IF res = "email" THEN {"send", "get", "getAll"} ELSE {"getAll"}]

\* the execution's (resource, operation) pair
Selected == <<resource, operation>>

Offered(pair) == pair[2] \in OperationOptions[pair[1]]
Documented(pair) == pair[2] \in ReadmeOperations[pair[1]]

\* C11 as stated: a pair the README lists is offered in the resource's
\* operation options and handled by execute; a pair execute handles is
\* offered in the options; and an execution that issues a request runs
\* under an offered pair.
OperationsSelectable ==
    /\ Documented(Selected) => (Offered(Selected) /\ Selected \in Handled)
    /\ Selected \in Handled => Offered(Selected)
    /\ reqLog # <<>> => Offered(Selected)

(* ---------------------------------------------------------------------- *)
(* Termination of the exhaustive email fetch                               *)
(* ---------------------------------------------------------------------- *)
\* the latest request of the current item
LastRequest == reqLog[Len(reqLog)]

\* the latest request was answered, without or with a non-empty next_cursor
StopAnswer ==
    /\ reqLog # <<>>
    /\ LastRequest.ok
    /\ RawCursor(LastRequest.response) = ""

ContinueAnswer ==
    /\ reqLog # <<>>
    /\ LastRequest.ok
    /\ RawCursor(LastRequest.response) # ""

\* C12: in an exhaustive fetch of emails against a server that never runs out
\* of answers, a response without a non-empty next_cursor ends the item
\* successfully, and execute then moves on to the next item; a response with a
\* non-empty next_cursor keeps the loop running, whatever its emails list holds
\* and however many requests came before; and when every request is answered
\* with a non-empty next_cursor the loop of the first item never ends and no
\* later item is processed.
CursorOnlyStop ==
    /\ [](StopAnswer => ItemDone)
    /\ [](ContinueAnswer => (pc = "cursorLoop" /\ outcome = "running"))
    /\ [](pc = "cursorLoop" => ContinueAnswer)
    /\ \A i \in 0..(NumItems - 1) : (StopAnswer /\ itemIndex = i) ~> (itemIndex = i + 1)
    /\ [](reqLog # <<>> => ContinueAnswer)
          => ([](itemIndex = 0 /\ pc \in {"item", "cursorLoop"}) /\ <>(pc = "cursorLoop"))

\* C12 witness: the loop is still running after more than 2 * MaxReq requests,
\* the latest answered with an empty emails list and a non-empty next_cursor
CursorOnlyStopWitness ==
    /\ pc = "cursorLoop"
    /\ Len(reqLog) = MaxReq
    /\ SentCursor(reqLog[1]) = Token(MaxReq + 1)
    /\ RawList(LastRequest.response, "emails") = <<>>
    /\ RawCursor(LastRequest.response) # ""
    /\ Len(entries) = MaxEntries

(* ---------------------------------------------------------------------- *)
(* A page fetch that fails in the middle of an exhaustive fetch            *)
(* ---------------------------------------------------------------------- *)
\* the current item is an exhaustive fetch whose latest request failed after
\* at least one page had been fetched
MidFetchFailure ==
    /\ ExhaustiveEmails \/ ExhaustiveTemplates
    /\ ItemFailed
    /\ Len(reqLog) >= 2
    /\ ~LastRequest.ok

\* C13: when a request of an exhaustive fetch fails after one or more pages
\* were fetched, the entries accumulated from those pages are held in memory
\* only: the item's output is empty and execute has thrown, or, with
\* continueOnFail, it is exactly the one record {error: message}; no entry of
\* the earlier pages is in it.
AccumulatedLost ==
    MidFetchFailure =>
        /\ \A j \in 1..(Len(reqLog) - 1) : reqLog[j].ok
        /\ entries = Concatenated(ExhaustiveKey, Len(reqLog) - 1)
        /\ IF continueOnFail
           THEN pc = "next" /\ ItemOut = <<ErrorRecord>>
           ELSE pc = "thrown" /\ ItemOut = <<>>
        /\ \A k \in 1..Len(ItemOut) :
              /\ \A e \in 1..Len(entries) : ItemOut[k].json # entries[e]
              /\ "data" \notin DOMAIN ItemOut[k].json

\* C13 witness: the third request of an exhaustive fetch failed when two
\* entries had been accumulated, and the item left its error record only
AccumulatedLostWitness ==
    /\ MidFetchFailure
    /\ continueOnFail
    /\ Len(reqLog) = 3
    /\ Len(entries) = 2
    /\ Len(ItemOut) = 1

(* ---------------------------------------------------------------------- *)
(* Failures without continueOnFail                                         *)
(* ---------------------------------------------------------------------- *)
\* execute has returned [returnData]
Returned == pc = "returned"

\* C14: with continueOnFail off, an item that fails makes execute throw that
\* item's error, having pushed nothing for the item; execute returns only when
\* no item failed; and once it has thrown it takes no further step, so that it
\* returns nothing, the records of earlier items included, and issues no
\* request for a later item.
AbortsBatch ==
    /\ [](~continueOnFail =>
            /\ ItemFailed =>
                  /\ pc = "thrown"
                  /\ thrown = itemError
                  /\ thrown.itemIndex = itemIndex
                  /\ ItemOut = <<>>
            /\ pc = "thrown" => (ItemFailed /\ itemIndex < NumItems)
            /\ Returned => (thrown = NoError /\ ~ItemFailed))
    /\ [][pc # "thrown"]_vars

\* C14 witness: the second item's request failed after the first item had
\* produced a record, and execute has thrown
AbortsBatchWitness ==
    /\ ~continueOnFail
    /\ pc = "thrown"
    /\ itemIndex = 1
    /\ Len(returnData) >= 1
    /\ thrown.kind = "NodeApiError"
    /\ Len(reqLog) = 1

(* ---------------------------------------------------------------------- *)
(* Page numbers of the exhaustive template fetch                           *)
(* ---------------------------------------------------------------------- *)
Reports(r, name) == name \in DOMAIN RawPagination(r)

\* the current page after the j-th response: the one it reports, or else the
\* page that was asked for
ReportedPage(j) ==
    IF Reports(reqLog[j].response, "current_page")
    THEN RawPagination(reqLog[j].response).current_page
    ELSE SentPage(reqLog[j])

\* C15: in an exhaustive fetch of templates the first request carries page =
\* max(1, starting page); every later request carries the current_page of the
\* response before it plus one, or, when that response reports no
\* current_page, the page sent before it plus one; and a response that
\* reports no last_page is the last of the item.
PageFromServer ==
    ExhaustiveTemplates =>
        /\ Len(reqLog) >= 1 =>
              SentPage(reqLog[1]) = (IF params.templatePage > 1 THEN params.templatePage ELSE 1)
        /\ \A j \in 2..Len(reqLog) : SentPage(reqLog[j]) = ReportedPage(j - 1) + 1
        /\ (Len(reqLog) >= 1 /\ LastRequest.ok) => page = ReportedPage(Len(reqLog)) + 1
        /\ \A j \in 1..Len(reqLog) :
              (reqLog[j].ok /\ ~Reports(reqLog[j].response, "last_page")) =>
                  (j = Len(reqLog) /\ ItemDone)

\* C15 witness: page 1 was asked for and answered as page 2 of 3, so page 3
\* was asked for next; its response reported neither current_page nor
\* last_page and the loop stopped
PageFromServerWitness ==
    /\ ExhaustiveTemplates
    /\ ItemDone
    /\ Len(reqLog) = 2
    /\ SentPage(reqLog[1]) = 1
    /\ Reports(reqLog[1].response, "current_page")
    /\ RawPagination(reqLog[1].response).current_page = 2
    /\ SentPage(reqLog[2]) = 3
    /\ ~Reports(reqLog[2].response, "current_page")
    /\ ~Reports(reqLog[2].response, "last_page")
    /\ reqLog[2].response # EmptyObject
    /\ page = 4

====
